---- MODULE Spec2Model ----
(***************************************************************************)
(* Model of the quant-alpha research harness:                              *)
(*   - strategies/sample.py  SampleStrategy_Backtesting (prenext / next /  *)
(*     stop), driven bar by bar by the backtesting engine;                 *)
(*   - data/resample_data.py resample_stock_bars;                          *)
(*   - backtesting/engine.py prepare_data_feeds and run_backtest.          *)
(*                                                                         *)
(* Numbers.  The strategy works on floats.  The model keeps them exact:    *)
(*   returns      integers in basis points (1 = 0.0001),                   *)
(*   volatility   integers in millionths   (1 = 0.000001),                 *)
(*   weights      reduced fractions [num, den],                            *)
(*   NaN          the record NaN; comparisons with NaN are FALSE.          *)
(* Rounding of IEEE doubles is not modelled.                               *)
(***************************************************************************)
EXTENDS Integers, Sequences, FiniteSets, TLC

----------------------------------------------------------------------------
(* Arithmetic helpers *)

Abs(x) == IF x < 0 THEN -x ELSE x

RECURSIVE Gcd(_, _)
Gcd(a, b) == IF b = 0 THEN Abs(a) ELSE Gcd(b, a % b)

Lcm(a, b) == (a \div Gcd(a, b)) * b

RECURSIVE SumOver(_, _)
SumOver(S, f) ==
    IF S = {} THEN 0
    ELSE LET s == CHOOSE x \in S : TRUE IN f[s] + SumOver(S \ {s}, f)

RECURSIVE LcmOver(_, _)
LcmOver(S, f) ==
    IF S = {} THEN 1
    ELSE LET s == CHOOSE x \in S : TRUE IN Lcm(f[s], LcmOver(S \ {s}, f))

\* Python's a | b on non-negative integers.
RECURSIVE BitOr(_, _)
BitOr(a, b) ==
    IF a = 0 /\ b = 0 THEN 0
    ELSE (IF a % 2 = 1 \/ b % 2 = 1 THEN 1 ELSE 0) + 2 * BitOr(a \div 2, b \div 2)

\* A float that is NaN or a number.
NaN == [nan |-> TRUE, x |-> 0]
Num(x) == [nan |-> FALSE, x |-> x]
isnan(f) == f.nan

\* A reduced fraction with a positive denominator.
Frac(n, d) ==
    LET g == Gcd(n, d)
        sg == IF d < 0 THEN -1 ELSE 1
    IN  [num |-> sg * (n \div g), den |-> sg * (d \div g)]

----------------------------------------------------------------------------
(* Input domains *)

\* data feeds registered with the engine, in data_dict order; datas[0] is "A"
Symbols == {"A", "B", "C"}
Data0 == "A"

\* RateOfChange values a feed can show, in basis points: -0.01, 0, 0.001, 0.01, 0.1
RetVals == {-100, 0, 10, 100, 1000}
\* StandardDeviation values a feed can show, in millionths: 0, 0.02
VolVals == {0, 20000}
\* the values of a backtest over several bars: 0.01, 0.1 and 0.02
BarRetVals == {100, 1000}
BarVolVals == {20000}
\* closing prices
CloseVals == {10}
\* position sizes the broker can report after executing an order
Sizes == {0, 2, 3}
\* broker.getvalue()
Values == {1000}
\* z_threshold as a fraction p/q: 0, 0.5 (the default), 1, 1.5
ZThresholds == {<<0, 1>>, <<1, 2>>, <<1, 1>>, <<3, 2>>}
\* rebalance_hours
Intervals == {1, 2}
\* number of bars of the dataset
MaxBars == 2

----------------------------------------------------------------------------
(* The weight computation of next, sample.py lines 91-115.                 *)
(* A is available_symbols, rets and vols the values collected for it.      *)

\* np.log on a return in basis points that is a power of ten, in units of
\* ln(10): nan below zero, -inf at zero.
np_log(r) ==
    IF r < 0 THEN [kind |-> "nan", x |-> 0]
    ELSE IF r = 0 THEN [kind |-> "-inf", x |-> 0]
    ELSE [kind |-> "num",
          x |-> CASE r = 1 -> -4 [] r = 10 -> -3 [] r = 100 -> -2
                  [] r = 1000 -> -1 [] r = 10000 -> 0]

log_rets(A, rets) == [s \in A |-> np_log(rets[s])]

\* market_ret and market_vol (lines 95-96) and z (line 97), kept exact:
\*   nan    z is NaN for every symbol: a nan or -inf log return makes
\*          market_ret and market_vol non-finite; market_vol = 0 makes z = 0/0
\*   n      len(log_rets)
\*   dev    n * (log_rets - market_ret)
\*   sumsq  n^3 * market_vol^2, so that z^2 = n * dev^2 / sumsq
\*   zero   market_vol is 0
ZScore(A, rets) ==
    LET lg == log_rets(A, rets)
        fin == \A s \in A : lg[s].kind = "num"
        n == Cardinality(A)
        L == [s \in A |-> lg[s].x]
        tot == SumOver(A, L)
        d == [s \in A |-> n * L[s] - tot]
        ss == SumOver(A, [s \in A |-> d[s] * d[s]])
    IN  [nan |-> ~fin \/ ss = 0, zero |-> fin /\ ss = 0,
         n |-> n, dev |-> d, sumsq |-> ss]

\* np.abs(z[s]) < p/q, for a threshold p/q >= 0
AbsZLess(z, s, thr) ==
    /\ ~z.nan
    /\ z.n * z.dev[s] * z.dev[s] * thr[2] * thr[2] < thr[1] * thr[1] * z.sumsq

\* np.abs(z[s]) > p/q
AbsZGreater(z, s, thr) ==
    /\ ~z.nan
    /\ z.n * z.dev[s] * z.dev[s] * thr[2] * thr[2] > thr[1] * thr[1] * z.sumsq

\* line 100: inactive = np.abs(z) < z_threshold
Inactive(A, z, thr) == {s \in A : AbsZLess(z, s, thr)}

\* line 101: active = np.abs(z) > z_threshold
Active(A, z, thr) == {s \in A : AbsZGreater(z, s, thr)}

\* the floor of np.clip(vols, 1e-6, None), in millionths
VolFloor == 1

\* line 92
clip(A, vols) == [s \in A |-> IF vols[s] < VolFloor THEN VolFloor ELSE vols[s]]

\* line 105: signal = -z / vols, times the positive factor
\* n * market_vol * LcmOver(vols) that the normalisation of line 113 cancels
RawSignal(A, z, vols) ==
    LET c == clip(A, vols)
        m == LcmOver(A, c)
    IN  [s \in A |-> (0 - z.dev[s]) * (m \div c[s])]

\* Signal with the two statements of lines 107-108 in the other order
Signal_ZeroFirst(A, z, vols, thr) ==
    LET act == Active(A, z, thr)
        ina == Inactive(A, z, thr)
        raw == RawSignal(A, z, vols)
        k == Cardinality(act)
        tot == SumOver(act, raw)
    IN  [s \in A |->
            IF z.nan \/ act = {} THEN NaN
            ELSE Num(k * (IF s \in ina THEN 0 ELSE raw[s]) - tot)]

\* lines 107-108: signal - np.mean(signal[active]), times len(active), then
\* signal[inactive] = 0.  The mean of an empty selection is NaN.
Signal(A, z, vols, thr) ==
    LET act == Active(A, z, thr)
        ina == Inactive(A, z, thr)
        raw == RawSignal(A, z, vols)
        k == Cardinality(act)
        tot == SumOver(act, raw)
    IN  [s \in A |->
            IF s \in ina THEN Num(0)
            ELSE IF z.nan \/ act = {} THEN NaN
            ELSE Num(k * raw[s] - tot)]

\* WeightsSum without np.abs
WeightsSum_NoAbs(A, sig) ==
    IF \E s \in A : isnan(sig[s]) THEN NaN
    ELSE Num(SumOver(A, [s \in A |-> sig[s].x]))

\* line 111: weights_sum = np.sum(np.abs(signal))
WeightsSum(A, sig) ==
    IF \E s \in A : isnan(sig[s]) THEN NaN
    ELSE Num(SumOver(A, [s \in A |-> Abs(sig[s].x)]))

\* line 112: weights_sum > 0
SumPositive(ws) == ~isnan(ws) /\ ws.x > 0

\* lines 112-115: weights = signal / weights_sum, or zeros
Normalize(A, sig) ==
    LET ws == WeightsSum(A, sig)
    IN  IF SumPositive(ws)
        THEN [s \in A |-> Frac(sig[s].x, ws.x)]
        ELSE [s \in A |-> Frac(0, 1)]

\* lines 91-115
Weights(A, rets, vols, thr) ==
    Normalize(A, Signal(A, ZScore(A, rets), vols, thr))

----------------------------------------------------------------------------
(* State *)

VARIABLES
    datas,              \* self.datas: the feeds added to the engine
    dataset,            \* the input data: the number of bars it delivers
                        \* and the values its indicators take
    rebalance_hours,    \* params.rebalance_hours
    z_threshold,        \* params.z_threshold, <<p, q>> for p/q
    bar_count,          \* self.bar_count
    portfolio_values,   \* self.portfolio_values
    dates,              \* self.dates
    delivered,          \* bars the engine has delivered so far
    warm,               \* the minimum period is met: the engine calls next
    datalen,            \* len(data) per feed, saturated at 1 (the code only
                        \* tests it against 0, lines 74-75)
    returns,            \* data.returns[0] per feed
    volatility,         \* data.volatility[0] per feed
    close,              \* data.close[0] per feed (0 while the feed is empty)
    position,           \* self.getposition(data).size per feed
    value,              \* self.broker.getvalue()
    orders,             \* order_target_size calls of the last callback
    available_symbols,  \* available_symbols of the last callback
    weights,            \* weights of the last callback
    computed,           \* weight computations run by the last callback
    done,               \* stop() has run
    df,                 \* the frame given to resample_stock_bars
    resample_call,      \* the arguments of the call, once it has run
    resampled,          \* the frame it returned
    data_dict,          \* the data_dict given to run_backtest: (symbol, frame)
                        \* pairs in the dictionary's order
    data_feeds,         \* the list prepare_data_feeds returned to run_backtest
    error,              \* the exception that ended run_backtest
    cerebro_run         \* cerebro.run() has been entered

stratVars == <<datas, dataset, rebalance_hours, z_threshold, bar_count,
               portfolio_values, dates, delivered, warm, datalen, returns,
               volatility, close, position, value, orders, available_symbols,
               weights, computed, done>>

resVars == <<df, resample_call, resampled>>

engVars == <<data_dict, data_feeds, error, cerebro_run>>

vars == <<stratVars, resVars, engVars>>

NoOrder == [placed |-> FALSE, target |-> Frac(0, 1)]

NoCall == [called |-> FALSE, freq |-> 0, market_hours_only |-> FALSE,
           timezone |-> 0]

----------------------------------------------------------------------------
(* SampleStrategy_Backtesting *)

\* __init__ on the feeds F of the dataset ds with the parameters N and thr
InitStrategy(F, N, thr, ds) ==
    /\ datas = F
    /\ dataset = ds
    /\ rebalance_hours = N
    /\ z_threshold = thr
    /\ bar_count = 0
    /\ portfolio_values = <<>>
    /\ dates = <<>>
    /\ delivered = 0
    /\ warm = FALSE
    /\ datalen = [s \in F |-> 0]
    /\ returns = [s \in F |-> NaN]
    /\ volatility = [s \in F |-> NaN]
    /\ close = [s \in F |-> 0]
    /\ position = [s \in F |-> 0]
    /\ value \in Values
    /\ orders = [s \in F |-> NoOrder]
    /\ available_symbols = {}
    /\ weights = <<>>
    /\ computed = 0
    /\ done = FALSE

\* What one feed can show at a bar: nothing yet, or a close with the
\* indicators' current values.
Observations(ds) ==
    {[datalen |-> 0, returns |-> NaN, volatility |-> NaN, close |-> 0]}
    \cup [datalen : {1},
          returns : {NaN} \cup {Num(r) : r \in ds.rets},
          volatility : {NaN} \cup {Num(v) : v \in ds.vols},
          close : CloseVals]

\* The engine moves to the next bar: the broker has executed the orders of the
\* previous callback (the resulting size is the broker's: any of Sizes), and
\* every feed shows its current observation.  A feed that has delivered a bar
\* keeps a positive length; some feed has delivered.  The length of the
\* warm-up is the engine's: a bar here is any bar of the run, so an indicator
\* may already show a number on it.
Deliver ==
    /\ cerebro_run
    /\ ~done
    /\ delivered < dataset.bars
    /\ delivered' = delivered + 1
    /\ \E bar \in [datas -> Observations(dataset)] :
        /\ \A s \in datas : bar[s].datalen >= datalen[s]
        /\ \E s \in datas : bar[s].datalen > 0
        /\ datalen' = [s \in datas |-> bar[s].datalen]
        /\ returns' = [s \in datas |-> bar[s].returns]
        /\ volatility' = [s \in datas |-> bar[s].volatility]
        /\ close' = [s \in datas |-> bar[s].close]
    /\ position' \in {f \in [datas -> Sizes] :
                        \A s \in datas : ~orders[s].placed => f[s] = position[s]}
    /\ value' \in Values
    /\ UNCHANGED <<datas, dataset, rebalance_hours, z_threshold, done>>
    /\ UNCHANGED resVars
    /\ UNCHANGED engVars

\* len(data.returns) and len(data.volatility): an indicator is as long as
\* the feed it is computed on
len_returns(dl, s) == dl[s]
len_volatility(dl, s) == dl[s]

\* line 75: len(self.data.returns) == 0 | len(self.data.volatility) == 0,
\* which Python reads as the chain a == (0 | b) == 0 on the first feed
SkipSymbol(dl) ==
    /\ len_returns(dl, Data0) = BitOr(0, len_volatility(dl, Data0))
    /\ BitOr(0, len_volatility(dl, Data0)) = 0

\* lines 72-86: the symbols appended to available_symbols
AvailableSymbols(F, dl, ret, vol) ==
    {s \in F : /\ dl[s] > 0
               /\ ~SkipSymbol(dl)
               /\ ~isnan(ret[s]) /\ ~isnan(vol[s])}

\* IsRebalanceBar with the test of line 64 inverted
IsRebalanceBar_Inverted(count, N) == count % N # 0

\* line 64: the bar is a rebalance bar
IsRebalanceBar(count, N) == count % N = 0

\* the no-trade band of line 132, 0.02 = BandNum / BandDen
BandNum == 2
BandDen == 100

\* ExceedsBand with >= for >
ExceedsBand_AtLeast(pv, w, size, px) ==
    Abs(pv * w.num - size * px * w.den) * BandDen >= pv * BandNum * w.den

\* line 132: abs(value_diff) > portfolio_value * 0.02, for the weight w
ExceedsBand(pv, w, size, px) ==
    LET g == Gcd(pv * BandNum, BandDen)
    IN  Abs(pv * w.num - size * px * w.den) * (BandDen \div g)
          > ((pv * BandNum) \div g) * w.den

\* line 133-135: target = position.size + value_diff / close
TargetSize(pv, w, size, px) ==
    Frac(size * px * w.den + (pv * w.num - size * px * w.den), px * w.den)

\* lines 121-135: the order_target_size calls of the rebalance loop
RebalanceOrders(F, A, w, pv, pos, px) ==
    [s \in F |->
        IF s \in A /\ ExceedsBand(pv, w[s], pos[s], px[s])
        THEN [placed |-> TRUE, target |-> TargetSize(pv, w[s], pos[s], px[s])]
        ELSE NoOrder]

\* the body of next (lines 57-135), appending to the lists pvs and dts
RunNext(pvs, dts) ==
    /\ portfolio_values' = Append(pvs, value')
    /\ dates' = Append(dts, delivered')
    /\ bar_count' = bar_count + 1
    /\ LET A == AvailableSymbols(datas, datalen', returns', volatility')
           rets == [s \in A |-> returns'[s].x]
           vols == [s \in A |-> volatility'[s].x]
       IN  IF ~IsRebalanceBar(bar_count', rebalance_hours)
           THEN /\ available_symbols' = {}
                /\ weights' = <<>>
                /\ computed' = 0
                /\ orders' = [s \in datas |-> NoOrder]
           ELSE IF A = {}
           THEN /\ available_symbols' = A
                /\ weights' = <<>>
                /\ computed' = 0
                /\ orders' = [s \in datas |-> NoOrder]
           ELSE /\ available_symbols' = A
                /\ weights' = Weights(A, rets, vols, z_threshold)
                /\ computed' = 1
                /\ orders' = RebalanceOrders(datas, A, weights', value',
                                             position', close')

\* prenext (lines 48-53): record the value and the date, then run next
prenext ==
    /\ ~warm
    /\ Deliver
    /\ warm' = FALSE
    /\ RunNext(Append(portfolio_values, value'), Append(dates, delivered'))

\* next (lines 55-135), called by the engine once every feed has met the
\* minimum period, so every feed has data
next ==
    /\ Deliver
    /\ \A s \in datas : datalen'[s] > 0
    /\ warm' = TRUE
    /\ RunNext(portfolio_values, dates)

\* stop (lines 156-159), called by the engine after the last bar
stop ==
    /\ cerebro_run
    /\ ~done
    /\ delivered = dataset.bars
    /\ done' = TRUE
    /\ UNCHANGED <<datas, dataset, rebalance_hours, z_threshold, bar_count,
                   portfolio_values, dates, delivered, warm, datalen, returns,
                   volatility, close, position, value, orders,
                   available_symbols, weights, computed>>
    /\ UNCHANGED resVars
    /\ UNCHANGED engVars

----------------------------------------------------------------------------
(* backtesting/engine.py *)

\* lines 60-68
required_base ==
    <<"open", "high", "low", "close", "volume", "trade_count", "vwap">>

\* no exception
NoError == [type |-> "None", message |-> <<>>]

\* raise ValueError(message)
ValueError(message) == [type |-> "ValueError", message |-> message]

\* a frame with a DatetimeIndex and every column of required_base
ValidFrame ==
    [index_is_datetime |-> TRUE,
     columns |-> {required_base[i] : i \in DOMAIN required_base}]

\* the frames given to run_backtest: the index is a DatetimeIndex or not, and
\* the columns are those of required_base or lack one of them
InputFrames ==
    [index_is_datetime : BOOLEAN,
     columns : {ValidFrame.columns \ M :
                   M \in {{}} \cup {{c} : c \in ValidFrame.columns}}]

\* the keys of data_dict in the dictionary's order; the first one becomes
\* datas[0]
DictKeys == {<<"A">>, <<"A", "B">>}

\* lines 69-71: the columns of required_base the frame lacks, in the order of
\* the loop
MissingColumns(frame) ==
    SelectSeq(required_base, LAMBDA col : col \notin frame.columns)

\* FrameError without the column loop of lines 69-71
FrameError_IndexOnly(symbol, frame) ==
    IF ~frame.index_is_datetime
    THEN ValueError(<<"must have DatetimeIndex", symbol>>)
    ELSE NoError

\* lines 56-71: the exception the checks of one frame raise
FrameError(symbol, frame) ==
    IF ~frame.index_is_datetime
    THEN ValueError(<<"must have DatetimeIndex", symbol>>)
    ELSE IF MissingColumns(frame) # <<>>
    THEN ValueError(<<"Missing required column", Head(MissingColumns(frame))>>)
    ELSE NoError

\* lines 74-78: the feed built on a frame
PandasDataCustomized(dataname, name) == [dataname |-> dataname, name |-> name]

\* lines 54-82: the loop from the i-th item on, feeds being the list built so
\* far; an exception leaves the loop and nothing is returned
RECURSIVE PrepareFrom(_, _, _)
PrepareFrom(dict, i, feeds) ==
    IF i > Len(dict)
    THEN [error |-> NoError, data_feeds |-> feeds]
    ELSE LET e == FrameError(dict[i].symbol, dict[i].frame)
         IN  IF e # NoError
             THEN [error |-> e]
             ELSE PrepareFrom(dict, i + 1,
                      Append(feeds, PandasDataCustomized(dict[i].frame,
                                                         dict[i].symbol)))

\* lines 52-82
prepare_data_feeds(dict) == PrepareFrom(dict, 1, <<>>)

\* the defaults of params (sample.py lines 14-17): run_backtest adds the
\* strategy without arguments
DefaultRebalanceHours == 1
DefaultZThreshold == <<1, 2>>

\* cerebro.run() instantiates the strategy on the feeds F: __init__
StartStrategy(F, N, thr, ds) ==
    /\ datas' = F
    /\ dataset' = ds
    /\ rebalance_hours' = N
    /\ z_threshold' = thr
    /\ bar_count' = 0
    /\ portfolio_values' = <<>>
    /\ dates' = <<>>
    /\ delivered' = 0
    /\ warm' = FALSE
    /\ datalen' = [s \in F |-> 0]
    /\ returns' = [s \in F |-> NaN]
    /\ volatility' = [s \in F |-> NaN]
    /\ close' = [s \in F |-> 0]
    /\ position' = [s \in F |-> 0]
    /\ value' \in Values
    /\ orders' = [s \in F |-> NoOrder]
    /\ available_symbols' = {}
    /\ weights' = <<>>
    /\ computed' = 0
    /\ done' = FALSE

\* run_backtest has been called
BacktestCalled == error # NoError \/ cerebro_run

\* run_backtest (lines 104-135): the exception of prepare_data_feeds leaves
\* the function at line 111; otherwise the feeds are added and the engine is
\* run, which delivers the bars to the strategy
run_backtest ==
    /\ ~BacktestCalled
    /\ LET r == prepare_data_feeds(data_dict)
       IN  IF r.error # NoError
           THEN /\ error' = r.error
                /\ UNCHANGED <<data_feeds, cerebro_run>>
                /\ UNCHANGED stratVars
           ELSE /\ error' = NoError
                /\ data_feeds' = r.data_feeds
                /\ cerebro_run' = TRUE
                /\ StartStrategy({r.data_feeds[i].name : i \in DOMAIN r.data_feeds},
                                 DefaultRebalanceHours, DefaultZThreshold,
                                 [bars |-> MaxBars, rets |-> BarRetVals,
                                  vols |-> BarVolVals])
    /\ UNCHANGED data_dict
    /\ UNCHANGED resVars

\* run_backtest has not been called
NoBacktest ==
    /\ data_dict = <<>>
    /\ data_feeds = <<>>
    /\ error = NoError
    /\ cerebro_run = FALSE

\* the engine runs on valid frames of the symbols keys
Running(keys) ==
    /\ data_dict = [i \in DOMAIN keys |-> [symbol |-> keys[i], frame |-> ValidFrame]]
    /\ data_feeds = [i \in DOMAIN keys |-> PandasDataCustomized(ValidFrame, keys[i])]
    /\ error = NoError
    /\ cerebro_run = TRUE

\* no frame has been resampled
NoResample == df = <<>> /\ resample_call = NoCall /\ resampled = <<>>

\* A backtest of two feeds over MaxBars bars
Init ==
    /\ \E N \in Intervals, thr \in ZThresholds :
        InitStrategy({"A", "B"}, N, thr,
                     [bars |-> MaxBars, rets |-> BarRetVals, vols |-> BarVolVals])
    /\ NoResample
    /\ Running(<<"A", "B">>)

Next == prenext \/ next \/ stop

Spec == Init /\ [][Next]_vars

\* One rebalance event over three feeds
InitSignal ==
    /\ \E thr \in ZThresholds :
        InitStrategy(Symbols, 1, thr,
                     [bars |-> 1, rets |-> RetVals, vols |-> VolVals])
    /\ NoResample
    /\ Running(<<"A", "B", "C">>)

SpecSignal == InitSignal /\ [][Next]_vars

\* A call of run_backtest on frames that may be invalid: the strategy does not
\* exist before the engine is run
InitEngine ==
    /\ InitStrategy({}, DefaultRebalanceHours, DefaultZThreshold,
                    [bars |-> 0, rets |-> {}, vols |-> {}])
    /\ NoResample
    /\ \E keys \in DictKeys :
          \E frames \in [DOMAIN keys -> InputFrames] :
              data_dict = [i \in DOMAIN keys |->
                              [symbol |-> keys[i], frame |-> frames[i]]]
    /\ data_feeds = <<>>
    /\ error = NoError
    /\ cerebro_run = FALSE

NextEngine == run_backtest \/ prenext \/ next \/ stop

SpecEngine == InitEngine /\ [][NextEngine]_vars

----------------------------------------------------------------------------
(* resample_stock_bars, data/resample_data.py                              *)
(* A timestamp is a number of hours since a Monday 00:00 UTC; a timezone   *)
(* is its fixed offset from UTC in hours; a frequency is a number of hours.*)

\* symbols of the frame and their order under sort
FrameSymbols == {"A", "B"}
SymbolRank(s) == IF s = "A" THEN 0 ELSE 1

\* Monday 14:00, Monday 15:00, Monday 20:00, Friday 14:00, Saturday 14:00 UTC
Timestamps == {14, 15, 20, 110, 134}
\* UTC and UTC-5
Timezones == {0, -5}
\* "6h" and "1d"
Freqs == {6, 24}
\* rows of the input frame
MaxRows == 3

\* the price and volume columns of a bar
BarShapes ==
    {[open |-> 10, high |-> 12, low |-> 9, close |-> 11, volume |-> 100,
      trade_count |-> 5, vwap |-> Frac(10, 1)],
     [open |-> 20, high |-> 25, low |-> 18, close |-> 22, volume |-> 300,
      trade_count |-> 7, vwap |-> Frac(21, 1)]}

MakeBar(sym, ts, sh) ==
    [symbol |-> sym, timestamp |-> ts, open |-> sh.open, high |-> sh.high,
     low |-> sh.low, close |-> sh.close, volume |-> sh.volume,
     trade_count |-> sh.trade_count, vwap |-> sh.vwap]

Range(seq) == {seq[i] : i \in 1..Len(seq)}

HoursPerDay == 24
DaysPerWeek == 7

\* line 72: dt.convert_time_zone: the timestamp as local wall-clock hours
ConvertTimeZone(frame, tz) ==
    [i \in 1..Len(frame) |->
        [frame[i] EXCEPT !.timestamp = frame[i].timestamp + tz]]

\* dt.hour()
Hour(ts) == ts % HoursPerDay

\* dt.weekday(): the ISO weekday, Monday = 1 ... Sunday = 7
Weekday(ts) == ((ts \div HoursPerDay) % DaysPerWeek) + 1

\* lines 79-81
MarketOpenHour == 9
MarketCloseHour == 16
WeekdayLimit == 5

InMarketHours(ts) ==
    /\ Hour(ts) >= MarketOpenHour
    /\ Hour(ts) < MarketCloseHour
    /\ Weekday(ts) < WeekdayLimit

\* lines 77-82: df.filter(...)
FilterMarketHours(frame, market_hours_only) ==
    IF market_hours_only
    THEN SelectSeq(frame, LAMBDA r : InMarketHours(r.timestamp))
    ELSE frame

\* the sort key of [symbol, timestamp]
SortKey(r) == <<SymbolRank(r.symbol), r.timestamp>>

KeyLeq(a, b) == a[1] < b[1] \/ (a[1] = b[1] /\ a[2] <= b[2])

RECURSIVE SortRows(_)
SortRows(S) ==
    IF S = {} THEN <<>>
    ELSE LET m == CHOOSE x \in S : \A y \in S : KeyLeq(SortKey(x), SortKey(y))
         IN  <<m>> \o SortRows(S \ {m})

\* SortFrame that leaves the frame in its input order
SortFrame_Unsorted(frame) == frame

\* lines 86 and 128: sort([symbol_col, timestamp_col]); the rows of a frame
\* have distinct (symbol, timestamp)
SortFrame(frame) == SortRows(Range(frame))

\* line 90: dt.truncate(freq)
Truncate(ts, freq) == ts - (ts % freq)

\* lines 87-111: group_by(symbol).agg(...).explode(...): every row keeps its
\* place within its symbol and carries the truncated timestamp
TruncateRows(frame, freq) ==
    [i \in 1..Len(frame) |->
        [frame[i] EXCEPT !.timestamp = Truncate(frame[i].timestamp, freq)]]

RECURSIVE SeqMax(_, _)
SeqMax(seq, i) ==
    IF i = 1 THEN seq[1]
    ELSE IF seq[i] > SeqMax(seq, i - 1) THEN seq[i] ELSE SeqMax(seq, i - 1)

RECURSIVE SeqMin(_, _)
SeqMin(seq, i) ==
    IF i = 1 THEN seq[1]
    ELSE IF seq[i] < SeqMin(seq, i - 1) THEN seq[i] ELSE SeqMin(seq, i - 1)

RECURSIVE SeqSum(_, _)
SeqSum(seq, i) == IF i = 0 THEN 0 ELSE seq[i] + SeqSum(seq, i - 1)

\* the sum of fractions
RECURSIVE FracSum(_, _)
FracSum(seq, i) ==
    IF i = 0 THEN Frac(0, 1)
    ELSE LET a == seq[i]
             b == FracSum(seq, i - 1)
         IN  Frac(a.num * b.den + b.num * a.den, a.den * b.den)

\* mean()
FracMean(seq) ==
    LET s == FracSum(seq, Len(seq)) IN Frac(s.num, s.den * Len(seq))

Column(g, c) == [i \in 1..Len(g) |-> g[i][c]]

\* lines 113-123: the aggregates of the rows g of one group, in frame order
AggregateGroup(g) ==
    [symbol |-> g[1].symbol,
     timestamp |-> g[1].timestamp,
     open |-> g[1].open,
     high |-> SeqMax(Column(g, "high"), Len(g)),
     low |-> SeqMin(Column(g, "low"), Len(g)),
     close |-> g[Len(g)].close,
     volume |-> SeqSum(Column(g, "volume"), Len(g)),
     trade_count |-> SeqSum(Column(g, "trade_count"), Len(g)),
     vwap |-> FracMean(Column(g, "vwap"))]

\* line 112: group_by([symbol_col, timestamp_col])
GroupRows(frame, sym, ts) ==
    SelectSeq(frame, LAMBDA r : r.symbol = sym /\ r.timestamp = ts)

\* lines 85-124
Aggregate(frame, freq) ==
    LET rows == TruncateRows(SortFrame(frame), freq)
        keys == {<<r.symbol, r.timestamp>> : r \in Range(rows)}
    IN  {AggregateGroup(GroupRows(rows, k[1], k[2])) : k \in keys}

\* lines 71-152
Resample(frame, freq, market_hours_only, tz) ==
    SortRows(Aggregate(
        FilterMarketHours(ConvertTimeZone(frame, tz), market_hours_only), freq))

\* the caller appends a bar to the frame it is building, in any order;
\* a (symbol, timestamp) occurs once
AddBar ==
    /\ ~resample_call.called
    /\ Len(df) < MaxRows
    /\ \E sym \in FrameSymbols, ts \in Timestamps, sh \in BarShapes :
        /\ \A i \in 1..Len(df) : ~(df[i].symbol = sym /\ df[i].timestamp = ts)
        /\ df' = Append(df, MakeBar(sym, ts, sh))
    /\ UNCHANGED <<resample_call, resampled>>
    /\ UNCHANGED stratVars
    /\ UNCHANGED engVars

resample_stock_bars ==
    /\ ~resample_call.called
    /\ \E freq \in Freqs, mho \in BOOLEAN, tz \in Timezones :
        /\ resample_call' = [called |-> TRUE, freq |-> freq,
                             market_hours_only |-> mho, timezone |-> tz]
        /\ resampled' = Resample(df, freq, mho, tz)
    /\ UNCHANGED df
    /\ UNCHANGED stratVars
    /\ UNCHANGED engVars

InitResample ==
    /\ InitStrategy({"A", "B"}, 1, <<1, 2>>,
                    [bars |-> 0, rets |-> {}, vols |-> {}])
    /\ NoResample
    /\ NoBacktest

NextResample == AddBar \/ resample_stock_bars

SpecResample == InitResample /\ [][NextResample]_vars

----------------------------------------------------------------------------
(* Properties of the strategy *)

\* the values collected for available_symbols at the last callback
CurRets == [s \in available_symbols |-> returns[s].x]
CurVols == [s \in available_symbols |-> volatility[s].x]
CurZ == ZScore(available_symbols, CurRets)
CurSignal == Signal(available_symbols, CurZ, CurVols, z_threshold)

\* the bar just delivered is a rebalance event
RebalanceEvent == delivered > 0 /\ delivered % rebalance_hours = 0

\* the position of s is within the no-trade band of its target
InBand(s) ==
    Abs(value * weights[s].num - position[s] * close[s] * weights[s].den) * BandDen
        <= value * BandNum * weights[s].den

\* C1: at a rebalance event whose eligible symbols all have the same
\* log-return (cross-sectional std 0), next calls order_target_size for no
\* symbol.
C1_ZeroStdSkipsRebalance ==
    (computed = 1 /\ CurZ.zero) => \A s \in datas : ~orders[s].placed

\* sum(|weight_i|) as a fraction
AbsWeightSum ==
    LET L == LcmOver(available_symbols,
                     [s \in available_symbols |-> weights[s].den])
    IN  Frac(SumOver(available_symbols,
                     [s \in available_symbols |->
                         Abs(weights[s].num) * (L \div weights[s].den)]), L)

\* the sum of the absolute signals is zero
AbsSignalSumZero ==
    \A s \in available_symbols : ~isnan(CurSignal[s]) /\ CurSignal[s].x = 0

\* C2: at a rebalance event with a non-empty eligible set the weights satisfy
\* sum(|weight_i|) = 0 or sum(|weight_i|) = 1, and the sum is 0 only when no
\* symbol is active or the sum of the absolute signals is zero.
C2_AbsWeightsSumZeroOrOne ==
    computed = 1 =>
        /\ AbsWeightSum = Frac(0, 1) \/ AbsWeightSum = Frac(1, 1)
        /\ AbsWeightSum = Frac(0, 1) =>
              \/ Active(available_symbols, CurZ, z_threshold) = {}
              \/ AbsSignalSumZero

\* both outcomes of C2 happen: weights that sum to 1 with a symbol that is
\* neither active nor inactive among them
C2_Witness ==
    /\ computed = 1
    /\ AbsWeightSum = Frac(1, 1)
    /\ \E s \in available_symbols :
          /\ s \notin Active(available_symbols, CurZ, z_threshold)
          /\ weights[s].num # 0

\* C3: every eligible symbol whose |z| is strictly below z_threshold gets
\* weight exactly 0.
C3_BelowThresholdZeroWeight ==
    computed = 1 =>
        \A s \in available_symbols :
            AbsZLess(CurZ, s, z_threshold) => weights[s].num = 0

\* a symbol below the threshold next to symbols with non-zero weights, the
\* active mean being non-zero
C3_Witness ==
    /\ computed = 1
    /\ \E s, u \in available_symbols :
          /\ AbsZLess(CurZ, s, z_threshold)
          /\ weights[s].num = 0
          /\ weights[u].num # 0
    /\ SumOver(Active(available_symbols, CurZ, z_threshold),
               RawSignal(available_symbols, CurZ, CurVols)) # 0

\* C4: in the rebalance loop, a symbol whose difference between target and
\* current notional is within portfolio_value * 0.02 gets no order_target_size
\* call and keeps its position; an order is requested only when the difference
\* strictly exceeds the band.
C4_NoTradeInsideBand ==
    [][computed = 1 =>
          \A s \in available_symbols :
              /\ InBand(s) => (~orders[s].placed /\ position'[s] = position[s])
              /\ orders[s].placed => ~InBand(s)]_vars

\* a held position exactly on the band that is left alone while another
\* symbol is traded
C4_Witness ==
    /\ computed = 1
    /\ \E s, u \in available_symbols :
          /\ position[s] # 0
          /\ InBand(s)
          /\ Abs(value * weights[s].num - position[s] * close[s] * weights[s].den)
               * BandDen = value * BandNum * weights[s].den
          /\ ~orders[s].placed
          /\ orders[u].placed

\* C7: every eligible symbol is exactly one of inactive (|z| < z_threshold)
\* or active (otherwise), |z| = z_threshold included, and no symbol outside
\* the active set ends with a non-zero signal.
C7_ExactlyOneClass ==
    (computed = 1 /\ ~CurZ.nan) =>
        \A s \in available_symbols :
            /\ (s \in Inactive(available_symbols, CurZ, z_threshold))
                 # (s \in Active(available_symbols, CurZ, z_threshold))
            /\ s \notin Active(available_symbols, CurZ, z_threshold)
                 => (~isnan(CurSignal[s]) /\ CurSignal[s].x = 0)

\* C8: for the eligible symbols A and B with returns 0.01 and -0.01,
\* volatilities 0.02 and 0.02 and z_threshold 0.5, both are active and the
\* weights are +0.5 and -0.5 in one order or the other.
C8_SymmetricPair ==
    (/\ computed = 1
     /\ available_symbols = {"A", "B"}
     /\ returns["A"] = Num(100) /\ returns["B"] = Num(-100)
     /\ volatility["A"] = Num(20000) /\ volatility["B"] = Num(20000)
     /\ z_threshold = <<1, 2>>)
    => /\ Active(available_symbols, CurZ, z_threshold) = {"A", "B"}
       /\ {weights["A"], weights["B"]} = {Frac(1, 2), Frac(-1, 2)}

\* C9: the weight computation and the order placement run at most once per
\* delivered bar, and only on bars whose 1-based position is a multiple of
\* rebalance_hours.
C9_RebalanceEveryNBars ==
    /\ bar_count = delivered
    /\ computed <= 1
    /\ (computed = 1 \/ \E s \in datas : orders[s].placed)
          => delivered % rebalance_hours = 0

\* a warm-up bar that is the second of an interval of 2 and places an order
C9_Witness ==
    /\ rebalance_hours = 2
    /\ delivered = 2
    /\ ~warm
    /\ computed = 1
    /\ \E s \in datas : orders[s].placed

\* the feed s has data and its current return and volatility are numbers
OwnValid(s) ==
    datalen[s] > 0 /\ ~isnan(returns[s]) /\ ~isnan(volatility[s])

\* C10: at a rebalance event a symbol without data or with a NaN return or
\* volatility gets no order, and a symbol is eligible exactly when its own
\* data and indicators are valid.
C10_OwnDataEligibility ==
    RebalanceEvent =>
        \A s \in datas :
            /\ ~OwnValid(s) => ~orders[s].placed
            /\ s \in available_symbols <=> OwnValid(s)

----------------------------------------------------------------------------
(* Properties of the resampler *)

\* the frame that enters the aggregation of lines 85-124
Kept ==
    FilterMarketHours(ConvertTimeZone(df, resample_call.timezone),
                      resample_call.market_hours_only)

\* the bars of Kept in the bucket b of the symbol sym
Bucket(sym, b) ==
    {r \in Range(Kept) :
        r.symbol = sym /\ Truncate(r.timestamp, resample_call.freq) = b}

Buckets ==
    {<<r.symbol, Truncate(r.timestamp, resample_call.freq)>> : r \in Range(Kept)}

\* the row is the aggregate of the bars G that the specification asks for
IsAggregateOf(row, G) ==
    LET first == CHOOSE r \in G : \A q \in G : r.timestamp <= q.timestamp
        last == CHOOSE r \in G : \A q \in G : r.timestamp >= q.timestamp
    IN  /\ row.open = first.open
        /\ row.close = last.close
        /\ \E r \in G : row.high = r.high
        /\ \A r \in G : row.high >= r.high
        /\ \E r \in G : row.low = r.low
        /\ \A r \in G : row.low <= r.low
        /\ row.volume = SumOver(G, [r \in G |-> r.volume])
        /\ row.trade_count = SumOver(G, [r \in G |-> r.trade_count])
        /\ row.vwap = Frac(SumOver(G, [r \in G |-> r.vwap.num]), Cardinality(G))

\* C5: for the bars of one symbol that fall in one bucket, in any input
\* order, the output holds one row: open of the chronologically first bar,
\* close of the last, the maximum high, the minimum low, the sums of volume
\* and trade_count and the mean vwap.
C5_BucketAggregates ==
    resample_call.called =>
        /\ Len(resampled) = Cardinality(Buckets)
        /\ \A k \in Buckets :
              \E i \in 1..Len(resampled) :
                  /\ resampled[i].symbol = k[1]
                  /\ resampled[i].timestamp = k[2]
                  /\ IsAggregateOf(resampled[i], Bucket(k[1], k[2]))

\* a bucket of three bars given latest first, with different prices
C5_Witness ==
    /\ resample_call.called
    /\ Len(df) = 3
    /\ df[1].symbol = df[2].symbol /\ df[2].symbol = df[3].symbol
    /\ df[1].timestamp > df[2].timestamp /\ df[2].timestamp > df[3].timestamp
    /\ df[1].open # df[3].open
    /\ Len(resampled) = 1

\* the local timestamp of a bar under the call's timezone
LocalTime(r) == r.timestamp + resample_call.timezone

\* the bar is on Monday to Friday between 09:00 and 16:00 local time
WeekdayMarketHours(r) ==
    /\ LocalTime(r) % HoursPerDay >= MarketOpenHour
    /\ LocalTime(r) % HoursPerDay < MarketCloseHour
    /\ (LocalTime(r) \div HoursPerDay) % DaysPerWeek \in 0..4

\* the bucket starts of the input bars and of the output rows
BucketStarts ==
    {Truncate(LocalTime(r), resample_call.freq) : r \in Range(df)}
    \cup {r.timestamp : r \in Range(resampled)}

\* C6: with market_hours_only a bar is kept exactly when its local hour is in
\* [9, 16) and its local weekday is Monday to Friday: every such bar
\* contributes to its bucket and no other bar does.
C6_WeekdayMarketHoursKept ==
    (resample_call.called /\ resample_call.market_hours_only) =>
        \A sym \in FrameSymbols, b \in BucketStarts :
            LET G == {r \in Range(df) :
                        /\ WeekdayMarketHours(r)
                        /\ r.symbol = sym
                        /\ Truncate(LocalTime(r), resample_call.freq) = b}
                rows == {i \in 1..Len(resampled) :
                            resampled[i].symbol = sym /\ resampled[i].timestamp = b}
            IN  IF G = {} THEN rows = {}
                ELSE \E i \in rows :
                        resampled[i].volume = SumOver(G, [r \in G |-> r.volume])

----------------------------------------------------------------------------
(* Properties of the engine *)

\* the frame has a DatetimeIndex and the seven required columns
FrameValid(frame) ==
    /\ frame.index_is_datetime
    /\ {"open", "high", "low", "close", "volume", "trade_count", "vwap"}
          \subseteq frame.columns

\* C11: once run_backtest has been called, if a frame of data_dict lacks a
\* required column or a DatetimeIndex, ValueError is raised, no feed is
\* returned, the engine is not run, no per-bar callback is invoked and no
\* order is placed; if every frame is valid there is exactly one feed per
\* symbol, in the dictionary's order.
C11_FailFastOnInvalidFrame ==
    BacktestCalled =>
        IF \E i \in DOMAIN data_dict : ~FrameValid(data_dict[i].frame)
        THEN /\ error.type = "ValueError"
             /\ data_feeds = <<>>
             /\ ~cerebro_run
             /\ datas = {}
             /\ delivered = 0 /\ bar_count = 0
             /\ portfolio_values = <<>> /\ dates = <<>>
             /\ \A s \in DOMAIN orders : ~orders[s].placed
        ELSE /\ error = NoError
             /\ cerebro_run
             /\ Len(data_feeds) = Len(data_dict)
             /\ \A i \in DOMAIN data_dict :
                   /\ data_feeds[i].name = data_dict[i].symbol
                   /\ data_feeds[i].dataname = data_dict[i].frame

\* a valid frame followed by a frame that only lacks vwap: the feed built for
\* the first one is not returned
C11_Witness ==
    /\ BacktestCalled
    /\ Len(data_dict) = 2
    /\ FrameValid(data_dict[1].frame)
    /\ data_dict[2].frame.index_is_datetime
    /\ data_dict[2].frame.columns = ValidFrame.columns \ {"vwap"}
    /\ error = ValueError(<<"Missing required column", "vwap">>)
    /\ data_feeds = <<>>

----------------------------------------------------------------------------
(* Properties of the recorded series *)

\* C12: after a run the strategy holds exactly one (date, portfolio_value)
\* pair per bar delivered, warm-up bars included: len(portfolio_values) =
\* len(dates) = the number of bars processed, the count stop logs, and no
\* bar's timestamp occurs twice in dates.
C12_OnePairPerBar ==
    done =>
        /\ Len(portfolio_values) = delivered
        /\ Len(dates) = delivered
        /\ \A i, j \in DOMAIN dates : i # j => dates[i] # dates[j]

====
